---------------------------- MODULE Spec2Model ----------------------------
(***************************************************************************)
(* RN PowerPoint Generator (ppt_genie_streamlit.py).                       *)
(*                                                                         *)
(* A Streamlit script: every browser interaction re-executes the script    *)
(* from the top against the per-browser session state.  The model has one  *)
(* action per kind of interaction (each is a whole script run), one action *)
(* per iteration of the image loop of generate_ppt_from_images, and the    *)
(* clock of the 5-minute cache.  The Google Sheet behind the user          *)
(* directory is outside the program: a run that fetches it may find any of *)
(* the contents (or failures) in Sheets.                                   *)
(*                                                                         *)
(* Strings are sequences of one-character strings, so that strip() and     *)
(* case-sensitive comparison are computed and not assumed.                 *)
(***************************************************************************)
EXTENDS Integers, Sequences, FiniteSets, TLC

VARIABLES
    cache,      \* the st.cache_data slot of load_users_from_sheet
    session,    \* st.session_state: a function from the keys present
    rerun,      \* st.rerun() was called: a script run is queued
    page,       \* what the last script run left on the screen
    gen,        \* the running / last call of generate_ppt_from_images
    last        \* what the last script run did (history for the properties)

vars == <<cache, session, rerun, page, gen, last>>

---------------------------------------------------------------------------
(* Bounds of the model *)

MaxImages     == 3    \* longest upload handed to the assembler (SpecAssemble)
MaxUpload     == 1    \* longest upload in the whole-application Spec
MaxRejections == 2    \* the count of consecutive rejected logins saturates here
TickSeconds   == 150  \* the clock advances in steps of this many seconds

---------------------------------------------------------------------------
(* Strings *)

IsSpace(c) == c = " "

RECURSIVE LStrip(_)
LStrip(s) == IF s = <<>> THEN <<>>
             ELSE IF IsSpace(Head(s)) THEN LStrip(Tail(s)) ELSE s

RECURSIVE RStrip(_)
RStrip(s) == IF s = <<>> THEN <<>>
             ELSE IF IsSpace(s[Len(s)]) THEN RStrip(SubSeq(s, 1, Len(s) - 1)) ELSE s

\* str.strip()
Strip(s) == RStrip(LStrip(s))

\* Python truthiness of a str
Truthy(s) == s # <<>>

LowerChar(c) == CASE c = "A" -> "a"
                  [] c = "B" -> "b"
                  [] c = "P" -> "p"
                  [] c = "Q" -> "q"
                  [] OTHER   -> c

Lower(s) == [i \in 1..Len(s) |-> LowerChar(s[i])]

\* the None of Python, kept distinct from every string the sheet can hold
None == <<"<None>">>

---------------------------------------------------------------------------
(* dict with insertion order: list(d.keys()) is d.keys *)

EmptyDict == [keys |-> <<>>, val |-> <<>>]

Range(f) == {f[i] : i \in DOMAIN f}

HasKey(d, k) == \E i \in 1..Len(d.keys) : d.keys[i] = k

DictGet(d, k) == d.val[CHOOSE i \in 1..Len(d.keys) : d.keys[i] = k]

DictSet(d, k, v) ==
    IF HasKey(d, k)
    THEN [keys |-> d.keys,
          val  |-> [i \in 1..Len(d.keys) |-> IF d.keys[i] = k THEN v ELSE d.val[i]]]
    ELSE [keys |-> Append(d.keys, k), val |-> Append(d.val, v)]

---------------------------------------------------------------------------
(* The Google Sheet "App Passwords" and load_users_from_sheet *)

Alice == <<"A", "l">>
Bob   == <<"B", "o">>
MailA == <<"a", "@">>
MailB == <<"b", "@">>
Url   == <<"u">>

Row(n, e, p, u) == [Name |-> n, Email |-> e, Password |-> p, Image_URL |-> u]

\* Alice appears twice (the later row wins), cells carry stray spaces,
\* and the two stored passwords differ only in case.
RowsA == << Row(<<" ", "A", "l">>, MailA, <<"x">>, <<>>),
            Row(Bob, MailB, <<" ", "P", "q", " ">>, Url),
            Row(Alice, <<"a", "@", " ">>, <<"p", "q">>, <<>>) >>

\* Alice's row lost its e-mail (the row is dropped), Bob's password changed.
RowsB == << Row(Bob, MailB, <<"p", "q">>, Url),
            Row(Alice, <<" ">>, <<"p", "q">>, <<>>) >>

\* a password cell that get_all_records() returns as a number
RowsNum == << Row(Alice, MailA, <<"<int>", "1", "2">>, <<>>) >>

Sheets == { [status |-> "ok", records |-> RowsA],
            [status |-> "ok", records |-> RowsB],
            [status |-> "ok", records |-> <<>>],
            [status |-> "ok", records |-> RowsNum],
            [status |-> "RefreshError", records |-> RowsA],
            [status |-> "SpreadsheetNotFound", records |-> RowsA],
            [status |-> "Exception", records |-> RowsA] }

\* a cell is a str unless get_all_records() turned it into a number
IsStr(cell) == cell = <<>> \/ Head(cell) # "<int>"

\* lines 80-92: the loop that builds the users dict from the first n records
RECURSIVE BuildUsers(_, _)
BuildUsers(records, n) ==
    IF n = 0 THEN EmptyDict
    ELSE LET record   == records[n]
             name     == Strip(record.Name)
             email    == Strip(record.Email)
             password == Strip(record.Password)
             image_url == Strip(record.Image_URL)
         IN  CHOOSE d \in
               { IF Truthy(name) /\ Truthy(email) /\ Truthy(password)
                 THEN DictSet(users, name,
                              [email |-> email, password |-> password, image_url |-> image_url])
                 ELSE users : users \in {BuildUsers(records, n - 1)} } : TRUE

\* .strip() on a cell that is not a str raises AttributeError
StripRaises(records) ==
    \E n \in 1..Len(records) :
        \/ ~IsStr(records[n].Name)  \/ ~IsStr(records[n].Email)
        \/ ~IsStr(records[n].Password) \/ ~IsStr(records[n].Image_URL)

\* the body of load_users_from_sheet: the mapping returned and the st.error shown
FetchUsers(sh) ==
    IF sh.status = "RefreshError"
    THEN [users |-> EmptyDict, errors |-> {"Authentication failed"}]
    ELSE IF sh.status = "SpreadsheetNotFound"
    THEN [users |-> EmptyDict, errors |-> {"User database not found"}]
    ELSE IF sh.status = "Exception" \/ StripRaises(sh.records)
    THEN [users |-> EmptyDict, errors |-> {"Error loading user data"}]
    ELSE [users |-> BuildUsers(sh.records, Len(sh.records)), errors |-> {}]

TTL == 300

NoCache == [present |-> FALSE, users |-> EmptyDict, errors |-> {}, age |-> 0]

\* the function called without its cache (the decorator left out)
CacheFreshNever(c) == FALSE

\* an entry of st.cache_data(ttl=300) is served while it is younger than ttl
CacheFresh(c) == c.present /\ c.age < TTL

\* a cache that keeps successful fetches only: a failed call leaves the slot
\* as it was, and an entry without users is never served
LoadUsersFailureNotCached(c, sh) ==
    IF CacheFresh(c) /\ c.errors = {}
    THEN [users |-> c.users, errors |-> c.errors, cache |-> c, fetched |-> FALSE]
    ELSE LET f == FetchUsers(sh)
         IN  [users |-> f.users, errors |-> f.errors, fetched |-> TRUE,
              cache |-> IF f.errors # {} THEN NoCache
                        ELSE [present |-> TRUE, users |-> f.users,
                              errors |-> f.errors, age |-> 0]]

\* load_users_from_sheet as called: read-through the cache slot
LoadUsers(c, sh) ==
    IF CacheFresh(c)
    THEN [users |-> c.users, errors |-> c.errors, cache |-> c, fetched |-> FALSE]
    ELSE LET f == FetchUsers(sh)
         IN  [users |-> f.users, errors |-> f.errors, fetched |-> TRUE,
              cache |-> [present |-> TRUE, users |-> f.users, errors |-> f.errors, age |-> 0]]

---------------------------------------------------------------------------
(* st.session_state *)

Has(s, k)    == k \in DOMAIN s
Put(s, k, v) == (k :> v) @@ s
Del(s, k)    == CHOOSE r \in { [x \in (DOMAIN t) \ {k} |-> t[x]] : t \in {s} } : TRUE

NewSession == [x \in {} |-> FALSE]

\* lines 37-47
RECURSIVE InitSessionVars(_, _)
InitSessionVars(s, todo) ==
    IF todo = {} THEN s
    ELSE LET var == CHOOSE v \in todo : TRUE
             default_value == CASE var = "selected_folder"     -> None
                                [] var = "selected_images"     -> <<>>
                                [] var = "generation_complete" -> FALSE
                                [] var = "output_file"         -> None
         IN  InitSessionVars(IF ~Has(s, var) THEN Put(s, var, default_value) ELSE s,
                             todo \ {var})

SESSION_STATE_VARS == {"selected_folder", "selected_images", "generation_complete", "output_file"}

---------------------------------------------------------------------------
(* Browser events.  A script run is driven by at most one widget event. *)

Names     == {Alice, Bob}
Passwords == { <<"p", "q">>, <<"P", "q">>, <<"p", "q", " ">>, <<>> }

NoEvent        == [kind |-> "none",   user |-> None, password |-> <<>>]
SelectEvent(u) == [kind |-> "select", user |-> u,    password |-> <<>>]
LoginEvent(pw) == [kind |-> "login",  user |-> None, password |-> pw]
LogoutEvent    == [kind |-> "logout", user |-> None, password |-> <<>>]
GenerateEvent  == [kind |-> "generate", user |-> None, password |-> <<>>]

BlankPage == [view |-> "blank", dropdown |-> None]

\* the comparison made case-insensitive
PasswordMatchesIgnoringCase(password, stored) == Lower(password) = Lower(stored)

\* line 330: password == users[current_user]['password']
PasswordMatches(password, stored) == password = stored

\* lines 295-301: the value st.selectbox returns.  The browser's choice if this
\* run was triggered by it; otherwise the value kept by the widget, which falls
\* back to options[index] when it is not among the options.
Selectbox(user_list, current_index, ev, pg) ==
    IF ev.kind = "select" /\ ev.user \in Range(user_list) THEN ev.user
    ELSE IF pg.dropdown \in Range(user_list) THEN pg.dropdown
    ELSE user_list[current_index]

\* lines 291: user_list.index(selected_user) if selected_user in user_list else 0
IndexOf(user_list, selected_user) ==
    IF selected_user \in Range(user_list)
    THEN CHOOSE i \in 1..Len(user_list) :
            /\ user_list[i] = selected_user
            /\ \A j \in 1..(i - 1) : user_list[j] # selected_user
    ELSE 1

\* the e-mail and avatar taken from the first record of the directory
SetAuthenticatedFirstRecord(s, users, current_user) ==
    LET rec == users.val[1]
        s1  == Put(s,  "authenticated", TRUE)
        s2  == Put(s1, "current_user",  current_user)
        s3  == Put(s2, "user_email",    rec.email)
    IN  Put(s3, "user_image", rec.image_url)

\* lines 331-334
SetAuthenticated(s, users, current_user) ==
    LET rec == DictGet(users, current_user)
        s1  == Put(s,  "authenticated", TRUE)
        s2  == Put(s1, "current_user",  current_user)
        s3  == Put(s2, "user_email",    rec.email)
    IN  Put(s3, "user_image", rec.image_url)

\* the empty-directory test of line 209 left out
LoadFailedNever(users) == FALSE

\* line 209: if not users
LoadFailed(users) == users.keys = <<>>

\* lines 215, 222: list(users.keys())[0] if users else None
FirstUser(users) == IF users.keys # <<>> THEN users.keys[1] ELSE None

\* current_user written before the password is checked
LoginFormEarlyWrite(s, users, password) ==
    LET current_user == s["selected_user"]
        early        == Put(s, "current_user", current_user)
    IN  IF HasKey(users, current_user)
           /\ PasswordMatches(password, DictGet(users, current_user).password)
        THEN [session |-> SetAuthenticated(early, users, current_user), rerun |-> TRUE,
              outcome |-> "login_ok", current_user |-> current_user, errors |-> {}]
        ELSE [session |-> early, rerun |-> FALSE,
              outcome |-> "login_rejected", current_user |-> current_user,
              errors |-> {"Invalid credentials"}]

\* lines 328-338: the submitted form.  On a mismatch nothing is written.
LoginForm(s, users, password) ==
    LET current_user == s["selected_user"]
    IN  IF HasKey(users, current_user)
           /\ PasswordMatches(password, DictGet(users, current_user).password)
        THEN [session |-> SetAuthenticated(s, users, current_user), rerun |-> TRUE,
              outcome |-> "login_ok", current_user |-> current_user, errors |-> {}]
        ELSE [session |-> s, rerun |-> FALSE,
              outcome |-> "login_rejected", current_user |-> current_user,
              errors |-> {"Invalid credentials"}]

\* lines 209-347: show_login once load_users_from_sheet has returned ld.
\* Returns the session it leaves, whether it called st.rerun(), what it
\* rendered and what happened.
LoginScreen(s, ev, pg, ld) ==
    LET users == ld.users
        s1 == IF ~Has(s, "selected_user") \/ s["selected_user"] = None
              THEN Put(s, "selected_user", FirstUser(users)) ELSE s
        stale == s1["selected_user"] = None \/ ~HasKey(users, s1["selected_user"])
        s2 == IF stale /\ users.keys # <<>>
              THEN Put(s1, "selected_user", FirstUser(users)) ELSE s1
        selected_user == s2["selected_user"]
        user_list     == users.keys
        current_index == IndexOf(user_list, selected_user)
        new_selection == Selectbox(user_list, current_index, ev, pg)
        shown         == [view |-> "login", dropdown |-> new_selection]
        form          == LoginForm(s2, users, ev.password)
    IN
    IF LoadFailed(users)                                            \* lines 209-211
    THEN [session |-> s, cache |-> ld.cache, rerun |-> FALSE, fetched |-> ld.fetched,
          page |-> [view |-> "error", dropdown |-> pg.dropdown],
          outcome |-> "no_users", users |-> users, current_user |-> None,
          errors |-> ld.errors \cup {"Unable to load user data"}]
    ELSE IF stale /\ users.keys = <<>>                              \* lines 224-226
    THEN [session |-> s1, cache |-> ld.cache, rerun |-> FALSE, fetched |-> ld.fetched,
          page |-> [view |-> "error", dropdown |-> pg.dropdown],
          outcome |-> "no_users", users |-> users, current_user |-> None,
          errors |-> ld.errors \cup {"No users found in the system"}]
    ELSE IF new_selection # s2["selected_user"]                     \* lines 303-305
    THEN [session |-> Put(s2, "selected_user", new_selection), cache |-> ld.cache,
          rerun |-> TRUE, fetched |-> ld.fetched, page |-> shown,
          outcome |-> "selection_changed", users |-> users, current_user |-> None,
          errors |-> ld.errors]
    ELSE IF ev.kind = "login"                                       \* line 328
    THEN [session |-> form.session, cache |-> ld.cache,
          rerun |-> form.rerun, fetched |-> ld.fetched, page |-> shown,
          outcome |-> form.outcome, users |-> users, current_user |-> form.current_user,
          errors |-> ld.errors \cup form.errors]
    ELSE [session |-> s2, cache |-> ld.cache,
          rerun |-> FALSE, fetched |-> ld.fetched, page |-> shown,
          outcome |-> "login_form", users |-> users, current_user |-> None,
          errors |-> ld.errors]

\* the logout that forgets to delete user_email
ClearAuthenticationKeepsEmail(s) ==
    LET s1 == Put(s, "authenticated", FALSE)
        s2 == IF Has(s1, "current_user") THEN Del(s1, "current_user") ELSE s1
    IN  IF Has(s2, "user_image") THEN Del(s2, "user_image") ELSE s2

\* lines 206-347: show_login (line 208 evaluated once, then the screen)
show_login(s, ev, pg, c, sh) ==
    CHOOSE r \in { LoginScreen(s, ev, pg, ld) : ld \in {LoadUsers(c, sh)} } : TRUE

\* lines 378-387: the logout button was pressed
ClearAuthentication(s) ==
    LET s1 == Put(s, "authenticated", FALSE)
        s2 == IF Has(s1, "current_user") THEN Del(s1, "current_user") ELSE s1
        s3 == IF Has(s2, "user_email")   THEN Del(s2, "user_email")   ELSE s2
    IN  IF Has(s3, "user_image") THEN Del(s3, "user_image") ELSE s3

\* lines 195-197
InitAuthentication(s) ==
    IF ~Has(s, "authenticated")
    THEN Put(Put(s, "authenticated", FALSE), "selected_user", None)
    ELSE s

\* the gate testing that the key exists instead of its value
GateOpenIfKeyPresent(s) == Has(s, "authenticated")

\* line 199: the gate lets the run through to the main page
GateOpen(s) == s["authenticated"]

\* a gate that looks the signed-in user up in the directory on every run and
\* signs the session out when the name is no longer listed
GatedPageRevalidating(s2, ev, pg, c, sh) ==
    IF ~GateOpen(s2)
    THEN show_login(s2, ev, pg, c, sh) @@ [generate |-> FALSE]
    ELSE CHOOSE r \in
           { IF ~HasKey(ld.users, s2["current_user"])
             THEN [session |-> ClearAuthentication(s2), cache |-> ld.cache, rerun |-> TRUE,
                   fetched |-> ld.fetched, page |-> [view |-> "main", dropdown |-> pg.dropdown],
                   outcome |-> "revoked", users |-> ld.users, current_user |-> None,
                   errors |-> {}, generate |-> FALSE]
             ELSE IF ev.kind = "logout"
             THEN [session |-> ClearAuthentication(s2), cache |-> ld.cache, rerun |-> TRUE,
                   fetched |-> ld.fetched, page |-> [view |-> "main", dropdown |-> pg.dropdown],
                   outcome |-> "logout", users |-> EmptyDict, current_user |-> None,
                   errors |-> {}, generate |-> FALSE]
             ELSE [session |-> s2, cache |-> ld.cache, rerun |-> FALSE,
                   fetched |-> ld.fetched, page |-> [view |-> "main", dropdown |-> pg.dropdown],
                   outcome |-> "main", users |-> EmptyDict, current_user |-> None,
                   errors |-> {}, generate |-> (ev.kind = "generate")]
             : ld \in {LoadUsers(c, sh)} } : TRUE

\* lines 419-718: the script from the authentication check on, up to the call
\* of generate_ppt_from_images (which the image loop actions continue); s2 is
\* the session as line 197 leaves it.  st.rerun() and st.stop() end the run
\* where they are called: whether or not the except clause of line 202 sees
\* them, check_authentication lets nothing past line 421.
GatedPage(s2, ev, pg, c, sh) ==
    IF ~GateOpen(s2)
    THEN show_login(s2, ev, pg, c, sh) @@ [generate |-> FALSE]      \* then st.stop()
    ELSE IF ev.kind = "logout"
    THEN [session |-> ClearAuthentication(s2), cache |-> c, rerun |-> TRUE,
          fetched |-> FALSE, page |-> [view |-> "main", dropdown |-> pg.dropdown],
          outcome |-> "logout", users |-> EmptyDict, current_user |-> None,
          errors |-> {}, generate |-> FALSE]
    ELSE [session |-> s2, cache |-> c, rerun |-> FALSE,
          fetched |-> FALSE, page |-> [view |-> "main", dropdown |-> pg.dropdown],
          outcome |-> "main", users |-> EmptyDict, current_user |-> None,
          errors |-> {}, generate |-> (ev.kind = "generate")]

\* One run of the script, lines 36-770.
RunScript(s0, ev, pg, c, sh) ==
    CHOOSE r \in { GatedPage(s2, ev, pg, c, sh) :
                     s2 \in {InitAuthentication(InitSessionVars(s0, SESSION_STATE_VARS))} } : TRUE

---------------------------------------------------------------------------
(* The Deck Assembler: generate_ppt_from_images *)

EMU_PER_INCH == 914400

\* pptx.util.Inches(x) for x given in hundredths of an inch: int(x * 914400)
Inches(hundredths) == (hundredths * EMU_PER_INCH) \div 100

\* lines 585-589, in hundredths of an inch
get_default_slide_size == [width_inches |-> 1333, height_inches |-> 750]

\* An uploaded file: whether python-pptx can decode it, and its pixel size
\* and resolution when it can.
Img(n, ok, w, h, d) == [name |-> n, valid |-> ok, px_w |-> w, px_h |-> h, dpi |-> d]

ImageKinds == { Img("wide.png",    TRUE,  1920, 1080, 144),
                Img("small.jpg",   TRUE,  4,    3,    72),
                Img("corrupt.jpg", FALSE, 0,    0,    72) }

\* what the operating system does to the temporary file of one iteration
EnvOutcomes == {"ok", "create_fails", "write_fails", "unlink_fails"}

\* add_picture without width/height: the native size of the image in EMU
NativeSize(img) == [width  |-> (EMU_PER_INCH * img.px_w) \div img.dpi,
                    height |-> (EMU_PER_INCH * img.px_h) \div img.dpi]

\* the picture fitted to the slide width with its aspect ratio kept
PictureKeepsAspect(g, img) ==
    IF g.auto_resize
    THEN [left |-> 0, top |-> 0, width |-> g.slide_width,
          height |-> img.px_h * (g.slide_width \div img.px_w)]
    ELSE [left |-> 0, top |-> 0, width |-> NativeSize(img).width,
          height |-> NativeSize(img).height]

\* lines 627-637: the picture element added to the slide
Picture(g, img) ==
    IF g.auto_resize
    THEN [left |-> 0, top |-> 0, width |-> g.slide_width, height |-> g.slide_height]
    ELSE [left |-> 0, top |-> 0, width |-> NativeSize(img).width,
          height |-> NativeSize(img).height]

IdleGen == [pc |-> "idle", files |-> <<>>, auto_resize |-> TRUE, i |-> 1,
            slides |-> <<>>, tmp |-> {}, attempted |-> {}, logged |-> {},
            envfail |-> FALSE, slide_width |-> 0, slide_height |-> 0, summary |-> 0]

\* lines 605-610: the presentation the loop starts from
StartGen(image_files, auto_resize) ==
    [pc |-> "loop", files |-> image_files, auto_resize |-> auto_resize, i |-> 1,
     slides |-> <<>>, tmp |-> {}, attempted |-> {}, logged |-> {}, envfail |-> FALSE,
     slide_width  |-> Inches(get_default_slide_size.width_inches),
     slide_height |-> Inches(get_default_slide_size.height_inches), summary |-> 0]

\* the new slide put in front of the deck
AddSlideAtFront(slides, i) == <<[src |-> i, shapes |-> <<>>]>> \o slides

\* line 621, then 624-625: a blank slide appended to the deck
AddSlide(slides, i) == Append(slides, [src |-> i, shapes |-> <<>>])

\* the except clause leaving the loop (break) instead of continuing
ContinueAsBreak(g, i) == [g EXCEPT !.logged = @ \cup {i}, !.i = Len(g.files) + 1]

\* lines 642-644: the except clause of the loop body: log and continue
Continue(g, i) == [g EXCEPT !.logged = @ \cup {i}, !.i = i + 1]

\* lines 613-644: one iteration of the loop, for the image at position g.i
ProcessOne(g, env) ==
    LET i             == g.i
        uploaded_file == g.files[i]
        g0 == [g EXCEPT !.attempted = @ \cup {i}, !.envfail = @ \/ (env # "ok")]
    IN
    IF env = "create_fails"                         \* line 616 raises
    THEN Continue(g0, i)
    ELSE LET g1 == [g0 EXCEPT !.tmp = @ \cup {i}]   \* the file exists (delete=False)
         IN
         IF env = "write_fails"                     \* line 617 raises
         THEN Continue(g1, i)
         ELSE LET g2 == [g1 EXCEPT !.slides = AddSlide(@, i)]       \* line 621
              IN
              IF ~uploaded_file.valid               \* add_picture raises
              THEN Continue(g2, i)
              ELSE LET n  == Len(g2.slides)
                       g3 == [g2 EXCEPT !.slides[n].shapes =
                                            Append(@, Picture(g, uploaded_file))]
                   IN
                   IF env = "unlink_fails"          \* line 640 raises
                   THEN Continue(g3, i)
                   ELSE [g3 EXCEPT !.tmp = @ \ {i}, !.i = i + 1]

\* lines 646-651 / 653-655: serialize and return, or re-raise
FinishGen(g, save_ok) ==
    IF save_ok
    THEN [g EXCEPT !.pc = "returned", !.summary = Len(g.files)]   \* line 739
    ELSE [g EXCEPT !.pc = "raised"]

---------------------------------------------------------------------------
(* The state machine *)

Min(a, b) == IF a < b THEN a ELSE b

RECURSIVE SeqsUpTo(_, _)
SeqsUpTo(S, n) ==
    IF n = 0 THEN { <<>> }
    ELSE LET shorter == SeqsUpTo(S, n - 1)
         IN  shorter \cup { Append(q, x) : q \in shorter, x \in S }

\* the login that authenticated the session: who, with which password,
\* against which directory record
NoLogin == [user |-> None, password |-> <<>>,
            record |-> [email |-> <<>>, password |-> <<>>, image_url |-> <<>>]]

NoRun == [kind |-> "none", password |-> <<>>, outcome |-> "none", users |-> EmptyDict,
          current_user |-> None, errors |-> {}, fetched |-> FALSE,
          live_login |-> FALSE, login |-> NoLogin, rejections |-> 0]

\* the history record of a script run with result r, after history prev
Ran(prev, ev, r) ==
    [kind |-> ev.kind, password |-> ev.password, outcome |-> r.outcome,
     users |-> r.users, current_user |-> r.current_user, errors |-> r.errors,
     fetched |-> r.fetched,
     live_login |-> IF r.outcome = "login_ok" THEN TRUE
                    ELSE IF r.outcome = "logout" THEN FALSE
                    ELSE prev.live_login,
     login |-> IF r.outcome = "login_ok"
               THEN [user |-> r.current_user, password |-> ev.password,
                     record |-> DictGet(r.users, r.current_user)]
               ELSE IF r.outcome = "logout" THEN NoLogin
               ELSE prev.login,
     rejections |-> IF r.outcome = "login_rejected"
                    THEN Min(prev.rejections + 1, MaxRejections)
                    ELSE IF r.outcome = "logout" THEN 0
                    ELSE prev.rejections]

\* a script run on the current session, driven by event ev; sh is what the
\* Google Sheet holds (or how it fails) should this run fetch it
Run(ev, sh) ==
    \E r \in {RunScript(session, ev, page, cache, sh)} :
        /\ session' = r.session
        /\ cache'   = r.cache
        /\ rerun'   = r.rerun
        /\ page'    = r.page
        /\ last'    = Ran(last, ev, r)

Busy == gen.pc = "loop"

\* What a run on session s may find in the sheet.  Only a run that reaches
\* show_login with no fresh cache entry contacts the sheet; for any other run
\* one content is fixed: a sheet in working order that lists both users.
SheetsSeen(s) ==
    IF CacheFresh(cache) \/ (Has(s, "authenticated") /\ GateOpen(s))
    THEN {[status |-> "ok", records |-> RowsA]}
    ELSE Sheets

Init ==
    /\ cache = NoCache
    /\ session = NewSession
    /\ rerun = FALSE
    /\ page = BlankPage
    /\ gen = IdleGen
    /\ last = NoRun

\* the browser opens (or reloads) the app: a new session, first script run
OpenPage ==
    /\ ~Busy
    /\ \E sh \in SheetsSeen(NewSession) :
        \E r \in {RunScript(NewSession, NoEvent, BlankPage, cache, sh)} :
            /\ session' = r.session
            /\ cache'   = r.cache
            /\ rerun'   = r.rerun
            /\ page'    = r.page
            /\ last'    = Ran(NoRun, NoEvent, r)
    /\ gen' = IdleGen

\* the run queued by st.rerun()
Rerun ==
    /\ rerun /\ ~Busy
    /\ \E sh \in SheetsSeen(session) : Run(NoEvent, sh)
    /\ gen' = IdleGen

\* a run triggered by a widget of the main page other than the two buttons
\* (uploader, checkbox, expander)
Interact ==
    /\ ~rerun /\ ~Busy /\ page.view = "main"
    /\ \E sh \in SheetsSeen(session) : Run(NoEvent, sh)
    /\ gen' = IdleGen

SelectUser ==
    /\ ~rerun /\ ~Busy /\ page.view = "login"
    /\ \E u \in Names \ {page.dropdown}, sh \in SheetsSeen(session) : Run(SelectEvent(u), sh)
    /\ gen' = IdleGen

SubmitLogin ==
    /\ ~rerun /\ ~Busy /\ page.view = "login"
    /\ \E pw \in Passwords, sh \in SheetsSeen(session) : Run(LoginEvent(pw), sh)
    /\ gen' = IdleGen

Logout ==
    /\ ~rerun /\ ~Busy /\ page.view = "main"
    /\ \E sh \in SheetsSeen(session) : Run(LogoutEvent, sh)
    /\ gen' = IdleGen

\* lines 711-718: the generate button, pressed with image_files uploaded
Generate(image_files, auto_resize, create_ok) ==
    /\ ~rerun /\ ~Busy /\ page.view = "main"
    /\ image_files # <<>>                  \* the button is disabled otherwise
    /\ \E sh \in SheetsSeen(session) :
        /\ Run(GenerateEvent, sh)
        /\ \E r \in {RunScript(session, GenerateEvent, page, cache, sh)} :
              gen' = IF ~r.generate THEN IdleGen
                     ELSE IF create_ok THEN StartGen(image_files, auto_resize)
                     ELSE [StartGen(image_files, auto_resize) EXCEPT !.pc = "raised"]

\* One call per rendering of the main page: a press that follows a finished
\* call starts from the same presentation as a press on the fresh page, so it
\* is taken after the page was rendered again (Interact).
GenerateUpload ==
    /\ gen.pc = "idle"
    /\ \E image_files \in SeqsUpTo(ImageKinds, MaxUpload), auto_resize \in BOOLEAN,
          create_ok \in BOOLEAN :
        Generate(image_files, auto_resize, create_ok)

GenerateBatch ==
    /\ gen.pc = "idle"
    /\ \E image_files \in SeqsUpTo(ImageKinds, MaxImages), auto_resize \in BOOLEAN,
          create_ok \in BOOLEAN :
        Generate(image_files, auto_resize, create_ok)

ProcessImage ==
    /\ gen.pc = "loop" /\ gen.i <= Len(gen.files)
    /\ \E env \in EnvOutcomes : gen' = ProcessOne(gen, env)
    /\ UNCHANGED <<cache, session, rerun, page, last>>

FinishGenerate ==
    /\ gen.pc = "loop" /\ gen.i > Len(gen.files)
    /\ \E save_ok \in BOOLEAN : gen' = FinishGen(gen, save_ok)
    /\ UNCHANGED <<cache, session, rerun, page, last>>

\* Another browser session runs the gate: st.cache_data is shared by all
\* sessions of the process, so its call of load_users_from_sheet refills the
\* slot once the entry has expired.
OtherSessionLoads ==
    /\ ~CacheFresh(cache)
    /\ \E sh \in Sheets : cache' = LoadUsers(cache, sh).cache
    /\ UNCHANGED <<session, rerun, page, gen, last>>

\* time passes
Tick ==
    /\ cache.present /\ cache.age < TTL
    /\ cache' = [cache EXCEPT !.age = Min(@ + TickSeconds, TTL)]
    /\ UNCHANGED <<session, rerun, page, gen, last>>

Next ==
    \/ OpenPage
    \/ Rerun
    \/ Interact
    \/ SelectUser
    \/ SubmitLogin
    \/ Logout
    \/ GenerateUpload
    \/ ProcessImage
    \/ FinishGenerate
    \/ OtherSessionLoads
    \/ Tick

Spec == Init /\ [][Next]_vars

---------------------------------------------------------------------------
(* The assembler on its own: the application as it stands once Alice has   *)
(* opened the page, signed in and the queued rerun has rendered the main   *)
(* page; from there only the generate button is pressed, with uploads of   *)
(* up to MaxImages files.                                                  *)

SheetA == [status |-> "ok", records |-> RowsA]

Opened   == RunScript(NewSession, NoEvent, BlankPage, NoCache, SheetA)
SignedIn == RunScript(Opened.session, LoginEvent(<<"p", "q">>), Opened.page, Opened.cache, SheetA)
MainPage == RunScript(SignedIn.session, NoEvent, SignedIn.page, SignedIn.cache, SheetA)

InitAssemble ==
    /\ cache   = MainPage.cache
    /\ session = MainPage.session
    /\ rerun   = MainPage.rerun
    /\ page    = MainPage.page
    /\ gen     = IdleGen
    /\ last    = Ran(Ran(Ran(NoRun, NoEvent, Opened), LoginEvent(<<"p", "q">>), SignedIn),
                     NoEvent, MainPage)

NextAssemble ==
    \/ Interact
    \/ GenerateBatch
    \/ ProcessImage
    \/ FinishGenerate

SpecAssemble == InitAssemble /\ [][NextAssemble]_vars

\* the initial state of SpecAssemble is a state of the whole application
AssembleStartReached ==
    /\ cache   = MainPage.cache
    /\ session = MainPage.session
    /\ rerun   = MainPage.rerun
    /\ page    = MainPage.page
    /\ gen     = IdleGen
    /\ last    = Ran(Ran(Ran(NoRun, NoEvent, Opened), LoginEvent(<<"p", "q">>), SignedIn),
                     NoEvent, MainPage)

---------------------------------------------------------------------------
(* Properties *)

Authenticated(s) == Has(s, "authenticated") /\ s["authenticated"] = TRUE

AuthFields == {"authenticated", "current_user", "user_email", "user_image"}

ValidCount(files) == Cardinality({i \in 1..Len(files) : files[i].valid})

\* the run recorded in last decided a submitted login form
LoginDecided == last.kind = "login" /\ last.outcome \in {"login_ok", "login_rejected"}

\* C1: a returned deck has exactly as many slides as the input has images that
\* decode (here: in calls where the operating system failed no temp-file step),
\* so a corrupt image contributes no slide.
C1_SlidesEqualValidImages ==
    (gen.pc = "returned" /\ ~gen.envfail) => Len(gen.slides) = ValidCount(gen.files)

\* C2: every step of generate_ppt_from_images (its start, each loop iteration,
\* its return) happens in a session with authenticated = TRUE, in which a login
\* succeeded and no logout followed.
C2_GenerationOnlyWhenAuthenticated ==
    [][ (gen' # gen /\ gen'.pc # "idle")
          => /\ Authenticated(session) /\ Authenticated(session')
             /\ last.live_login /\ last'.live_login ]_vars

C2_GeneratedAfterFailedLogin ==
    /\ gen.pc = "returned" /\ Len(gen.slides) > 0
    /\ last.kind = "generate" /\ last.rejections >= 1

\* C3: a submitted login form, with directory D non-empty and user u selected,
\* authenticates the session if and only if the submitted password is the very
\* string D[u].password; and every submission against a non-empty directory is
\* decided (u is in D).
C3_LoginIffPasswordEqual ==
    /\ (last.kind = "login" /\ last.users.keys # <<>>) =>
           /\ LoginDecided
           /\ HasKey(last.users, last.current_user)
    /\ LoginDecided =>
           (Authenticated(session)
              <=> last.password = DictGet(last.users, last.current_user).password)

C3_BobSignedIn ==
    /\ LoginDecided /\ Authenticated(session)
    /\ last.current_user = Bob /\ last.password = <<"P", "q">>

C3_CaseVariantRejected ==
    /\ LoginDecided /\ ~Authenticated(session)
    /\ last.current_user = Bob /\ last.password = <<"p", "q">>
    /\ DictGet(last.users, Bob).password = <<"P", "q">>

C5_LogoutClearsSession ==
    /\ last.outcome = "logout" =>
           /\ Has(session, "authenticated") /\ session["authenticated"] = FALSE
           /\ {"current_user", "user_email", "user_image"} \cap DOMAIN session = {}
    /\ Has(session, "authenticated") =>
           LET once == ClearAuthentication(session)
           IN  /\ once["authenticated"] = FALSE
               /\ {"current_user", "user_email", "user_image"} \cap DOMAIN once = {}
               /\ ClearAuthentication(once) = once
               /\ \A k \in DOMAIN session \ AuthFields : Has(once, k) /\ once[k] = session[k]

C5_LoggedOut ==
    /\ last.outcome = "logout" /\ rerun
    /\ ~Authenticated(session) /\ ~Has(session, "current_user")

\* C6: authenticated is true exactly when current_user is set, and then
\* current_user is the user of the login that authenticated the session, the
\* password presented there equalled that user's stored password, and
\* user_email and user_image are those of the same directory record.
C6_AuthenticatedIffCurrentUser ==
    /\ Authenticated(session) <=> Has(session, "current_user")
    /\ Has(session, "current_user") =>
           /\ last.live_login
           /\ session["current_user"] = last.login.user
           /\ last.login.password = last.login.record.password
           /\ Has(session, "user_email") /\ session["user_email"] = last.login.record.email
           /\ Has(session, "user_image") /\ session["user_image"] = last.login.record.image_url
    /\ ~Has(session, "current_user") => ~last.live_login

C6_BobOnMainPage ==
    /\ ~rerun /\ page.view = "main" /\ Authenticated(session)
    /\ session["current_user"] = Bob /\ session["user_email"] = MailB
    /\ session["user_image"] = Url

\* C7: a run of the gate that loaded an empty directory reports the error of
\* line 210, renders no login form, leaves the session unauthenticated and
\* unchanged, queues no rerun and reaches neither uploader nor generator.
C7_EmptyDirectoryBlocks ==
    [][ (last'.outcome \notin {"none", "main", "logout"}
           /\ last'.users.keys = <<>>)
          => /\ "Unable to load user data" \in last'.errors
             /\ page'.view = "error"
             /\ ~Authenticated(session')
             /\ ~rerun'
             /\ gen'.pc = "idle" ]_vars

C7_BlockedByFailedFetch ==
    /\ last.outcome = "no_users" /\ page.view = "error"
    /\ "Authentication failed" \in last.errors /\ last.fetched

\* C8: the slides of the deck are in the order of the input positions they come
\* from, and no input position yields two slides.
C8_SlidesInInputOrder ==
    /\ \A a, b \in 1..Len(gen.slides) : a < b => gen.slides[a].src < gen.slides[b].src
    /\ \A a \in 1..Len(gen.slides) : gen.slides[a].src \in gen.attempted

C8_SkippedInTheMiddle ==
    /\ gen.pc = "returned" /\ Len(gen.files) = 3 /\ Len(gen.slides) = 2
    /\ gen.slides[1].src = 1 /\ gen.slides[2].src = 3
    /\ Len(gen.slides[1].shapes) = 1 /\ Len(gen.slides[2].shapes) = 1

\* C9: every slide of a returned deck holds exactly one picture, at (0,0).
C9_OnePicturePerSlide ==
    gen.pc = "returned" =>
        \A a \in 1..Len(gen.slides) :
            /\ Len(gen.slides[a].shapes) = 1
            /\ gen.slides[a].shapes[1].left = 0
            /\ gen.slides[a].shapes[1].top = 0

\* C10: an iteration of the image loop, failed or not, hands over to the next
\* position; a call that returns has gone through every position; and a call
\* raises only before the first iteration (creating the presentation) or after
\* the last (saving it).
C10_FailureNeverAbortsBatch ==
    [][ /\ (gen.pc = "loop" /\ gen.i <= Len(gen.files) /\ gen' # gen) =>
              /\ gen'.pc = "loop" /\ gen'.i = gen.i + 1
              /\ gen'.attempted = gen.attempted \cup {gen.i}
              /\ gen'.files = gen.files
        /\ (gen'.pc = "returned") => gen'.attempted = 1..Len(gen'.files)
        /\ (gen'.pc = "raised") =>
              \/ gen'.attempted = {}
              \/ gen'.attempted = 1..Len(gen'.files) ]_vars

C10_LaterImageProcessedAfterFailure ==
    /\ gen.pc = "returned" /\ Len(gen.files) >= 2
    /\ 1 \in gen.logged
    /\ \E a \in 1..Len(gen.slides) :
          gen.slides[a].src = Len(gen.files) /\ Len(gen.slides[a].shapes) = 1

\* the cache slot holds an entry of the current 5-minute window
InWindow(c) == c.present /\ c.age < TTL

\* the step is not the clock's: a script run, a loop step or another session
NotTick == cache'.age <= cache.age

\* the mappings a fetch can produce
Fetchable == { FetchUsers(sh).users : sh \in Sheets }

\* C11: while the cache entry is younger than 5 minutes no step fetches the
\* sheet or alters the entry, and a run of the gate is handed the cached
\* mapping; the mapping changes only by a fetch made when no entry of the
\* window exists, which stores the fetched mapping whole as a new entry.
C11_OneFetchPerWindow ==
    [][ /\ (InWindow(cache) /\ NotTick) =>
              /\ cache' = cache
              /\ last' # last => ~last'.fetched
              /\ (last' # last /\ last'.outcome \notin {"none", "main", "logout"})
                    => last'.users = cache.users
        /\ (cache'.users # cache.users \/ (last' # last /\ last'.fetched)) =>
              /\ ~InWindow(cache)
              /\ cache'.present /\ cache'.age = 0
              /\ cache'.users \in Fetchable
        /\ (last' # last /\ last'.fetched) => cache'.users = last'.users ]_vars

C11_ServedFromCache ==
    /\ InWindow(cache) /\ cache.age > 0
    /\ last.outcome = "login_rejected" /\ ~last.fetched
    /\ last.users = cache.users /\ Len(cache.users.keys) = 2

\* C12: every picture of the deck is placed at the origin and sized by the
\* flag alone: with auto_resize its width and height are the canvas's
\* (13.33in x 7.5in), whatever the image; without it they are the native
\* width and height of the image it was made from.
C12_PictureSizedByFlag ==
    \A k \in 1..Len(gen.slides) :
        \A j \in 1..Len(gen.slides[k].shapes) :
            LET pic == gen.slides[k].shapes[j]
                img == gen.files[gen.slides[k].src]
            IN  IF gen.auto_resize
                THEN /\ pic.width  = Inches(get_default_slide_size.width_inches)
                     /\ pic.height = Inches(get_default_slide_size.height_inches)
                     /\ pic.width = gen.slide_width /\ pic.height = gen.slide_height
                ELSE /\ pic.width  = (EMU_PER_INCH * img.px_w) \div img.dpi
                     /\ pic.height = (EMU_PER_INCH * img.px_h) \div img.dpi

\* a finished deck made with auto_resize from a 16:9 and a 4:3 image, both
\* stretched to the canvas
C12_TwoShapesOneSize ==
    /\ gen.pc = "returned" /\ gen.auto_resize
    /\ \E a, b \in 1..Len(gen.slides) :
          /\ gen.files[gen.slides[a].src].name = "wide.png"
          /\ gen.files[gen.slides[b].src].name = "small.jpg"
          /\ Len(gen.slides[a].shapes) = 1 /\ Len(gen.slides[b].shapes) = 1
          /\ gen.slides[a].shapes[1].width = gen.slides[b].shapes[1].width
          /\ gen.slides[a].shapes[1].height = gen.slides[b].shapes[1].height

\* C13: at the start of every iteration and when the call returns, no
\* temporary file made by this call exists any more (here: in calls where the
\* operating system failed no temp-file step, so the only failures are images
\* that do not decode).
C13_NoTempFileLeft ==
    (gen.pc \in {"loop", "returned"} /\ ~gen.envfail) => gen.tmp = {}

\* the cache slot holds the result of a failed fetch of the current window
FailedEntry(c) == InWindow(c) /\ c.errors # {}

\* the messages of the three except clauses of load_users_from_sheet
FetchErrors == {"Authentication failed", "User database not found",
                "Error loading user data"}

\* C14: a fetch that fails is stored as an entry of a new window with the
\* empty mapping; while that entry is younger than 5 minutes no step fetches
\* again or alters it although the sheet is back in working order, every
\* run of the login screen is handed the empty mapping and stops at "Unable
\* to load user data", and no session that is not signed in gets signed in.
C14_FailedFetchIsCached ==
    [][ /\ (last' # last /\ last'.fetched /\ last'.errors \cap FetchErrors # {}) =>
              cache' = [present |-> TRUE, users |-> EmptyDict,
                        errors |-> last'.errors \cap FetchErrors, age |-> 0]
        /\ (FailedEntry(cache) /\ NotTick) =>
              /\ cache' = cache
              /\ cache.users = EmptyDict
              /\ ~Authenticated(session) =>
                    /\ ~Authenticated(session')
                    /\ page'.view \in {"blank", "error"}
                    /\ last' # last =>
                          /\ ~last'.fetched
                          /\ last'.outcome = "no_users"
                          /\ last'.users = EmptyDict ]_vars

\* a page opened without a sign-in, later in the window of a failed fetch
C14_BlockedLaterInWindow ==
    /\ FailedEntry(cache) /\ cache.age > 0
    /\ ~Authenticated(session) /\ page.view = "error"
    /\ last.outcome = "no_users" /\ ~last.fetched /\ last.users = EmptyDict

\* C15: in a signed-in session every run but the one of the logout button
\* passes the gate without a call of load_users_from_sheet: it leaves the
\* session and the cache as they are, renders the main page and lets the
\* generate button start generate_ppt_from_images, whatever the directory
\* holds by then; only the logout button ends the sign-in.
C15_SignedInIgnoresDirectory ==
    [][ /\ (Authenticated(session) /\ last'.live_login) =>
              /\ session' = session
              /\ page'.view = "main" \/ page' = page
              /\ last' # last =>
                    /\ last'.outcome = "main" /\ ~last'.fetched
                    /\ page'.view = "main"
                    /\ cache' = cache
                    /\ last'.kind = "generate" => gen'.pc \in {"loop", "raised"}
        /\ (Authenticated(session) /\ last'.kind \notin {"none", "logout"}) =>
              Authenticated(session') ]_vars

\* Alice, signed in, has a deck returned while the entry of the current
\* window, loaded after her sign-in, does not list her
C15_GeneratedAfterRemoval ==
    /\ Authenticated(session) /\ session["current_user"] = Alice
    /\ InWindow(cache) /\ ~HasKey(cache.users, Alice)
    /\ last.kind = "generate" /\ gen.pc = "returned" /\ Len(gen.slides) > 0

\* C16: when the call has returned a deck, the count of the summary message
\* "Created presentation with N slides" equals the number of slides of the
\* deck, whichever images failed on the way.
C16_SummaryCountsSlides ==
    gen.pc = "returned" => gen.summary = Len(gen.slides)

=============================================================================
